---- MODULE Spec2Model ----
(***************************************************************************)
(* The LangGraph resume-tailoring workflow of ai_cv_agent                  *)
(* (graph/workflow_graph.py) with the collaborators its nodes call:        *)
(* the profile reader, the job parser agent and its fetcher, the tailoring *)
(* agent, the HTML builder and the PDF converter.                          *)
(*                                                                         *)
(* Python strings are sequences of tokens: a token is a literal chunk of   *)
(* a format string, an interpolated name, or one character of a text whose *)
(* characters matter.  The empty string is << >>.  A Python dict is a      *)
(* function whose domain is the set of keys present.  An optional value is *)
(* << >> for None and <<v>> for a value v.                                  *)
(***************************************************************************)
EXTENDS Integers, Sequences, FiniteSets, TLC

VARIABLES
    pc,        \* position of run_workflow: NotStarted, invoke, done
    state,     \* the WorkflowState dict the graph threads through the nodes
    active,    \* nodes scheduled by the graph engine and not yet returned
    at,        \* per node: idle, or the await the node function is suspended at
    local,     \* per node: the local variables of the suspended node function
    update,    \* per node: the dict its wrapper returned, not yet written
    entered,   \* sequence of the nodes whose wrapper has been invoked
    calls,     \* sequence of the collaborators invoked, in order
    failed,    \* set of <<node, kind, message>>: the node functions that failed
    env,       \* what the collaborators did in this run (outcomes observed)
    files,     \* paths of the PDF files written to disk
    clock,     \* the wall clock, in minutes
    result,    \* what run_workflow gave its caller
    heap,      \* the number of ResumeData objects constructed so far
    history,   \* what the earlier calls of run_workflow gave their callers
    args,      \* the arguments of a direct call of one of the functions
    ret        \* the function called directly and what it returned

vars == <<pc, state, active, at, local, update, entered, calls, failed, env,
          files, clock, result, heap, history, args, ret>>

\* the variables of one call of run_workflow
runvars == <<pc, state, active, at, local, update, entered, calls, failed,
             env, files, clock, result, heap>>

----------------------------------------------------------------------------
(* Values shared by the whole model *)

EmptyDict == [k \in {} |-> << >>]

None == << >>

Some(v) == <<v>>

Return(v) == [kind |-> "return", value |-> v]

Raise(type, msg) == [kind |-> "raise", type |-> type, msg |-> msg]

\* dict.get(k) followed by a truth test: absent, None and "" are all falsy
truthy(d, k) == k \in DOMAIN d /\ d[k] # << >>

\* how the graph engine writes a node's returned dict into the state
merge(st, upd) ==
    [k \in (DOMAIN st) \cup (DOMAIN upd) |->
        IF k \in DOMAIN upd THEN upd[k] ELSE st[k]]

----------------------------------------------------------------------------
(* with_error_handling *)

\* the wrapper without its check of an earlier error
wrapper_never_skips(st) == FALSE

\* the wrapper skips the node when an earlier step left an error
wrapper_skips(st) == truthy(st, "error")

\* the wrapper leaving a returned error without its step
wrapper_result_untagged(node_name, outcome) ==
    IF outcome.kind = "raise"
    THEN Return([error |-> <<"Failed in ", node_name, ": ">> \o outcome.msg,
                 error_step |-> <<node_name>>,
                 error_details |-> outcome.msg])
    ELSE Return(outcome.value)

\* the wrapper without its except clause
wrapper_result_uncaught(node_name, outcome) ==
    IF outcome.kind = "raise"
    THEN outcome
    ELSE IF truthy(outcome.value, "error")
         THEN Return(merge(outcome.value, [error_step |-> <<node_name>>]))
         ELSE Return(outcome.value)

\* what the wrapper returns for the outcome of the node function
wrapper_result(node_name, outcome) ==
    IF outcome.kind = "raise"
    THEN Return([error |-> <<"Failed in ", node_name, ": ">> \o outcome.msg,
                 error_step |-> <<node_name>>,
                 error_details |-> outcome.msg])
    ELSE IF truthy(outcome.value, "error")
         THEN Return(merge(outcome.value, [error_step |-> <<node_name>>]))
         ELSE Return(outcome.value)

----------------------------------------------------------------------------
(* build_workflow_graph *)

Nodes == {"load_profile", "parse_job", "tailor_resume", "generate_html",
          "export_pdf"}

EntryPoint == "load_profile"

\* the graph with tailor_resume also scheduled straight after load_profile
EdgesFanOut == {<<"load_profile", "parse_job">>,
                <<"load_profile", "tailor_resume">>,
                <<"parse_job", "tailor_resume">>,
                <<"tailor_resume", "generate_html">>,
                <<"generate_html", "export_pdf">>,
                <<"export_pdf", "END">>}

\* the graph with parse_job scheduled again after itself
EdgesRetry == {<<"load_profile", "parse_job">>,
               <<"parse_job", "parse_job">>,
               <<"parse_job", "tailor_resume">>,
               <<"tailor_resume", "generate_html">>,
               <<"generate_html", "export_pdf">>,
               <<"export_pdf", "END">>}

\* the graph whose last edge leads to a node that was never added
EdgesDangling == {<<"load_profile", "parse_job">>,
                  <<"parse_job", "tailor_resume">>,
                  <<"tailor_resume", "generate_html">>,
                  <<"generate_html", "export_pdf">>,
                  <<"export_pdf", "success_sink">>}

Edges == {<<"load_profile", "parse_job">>,
          <<"parse_job", "tailor_resume">>,
          <<"tailor_resume", "generate_html">>,
          <<"generate_html", "export_pdf">>,
          <<"export_pdf", "END">>}

Successors(n) == {e[2] : e \in {d \in Edges : d[1] = n}}

----------------------------------------------------------------------------
(* Python string operations on token sequences *)

Whitespace == {" ", "\n"}

RECURSIVE lstrip(_)
lstrip(s) == IF s # << >> /\ Head(s) \in Whitespace THEN lstrip(Tail(s)) ELSE s

RECURSIVE rstrip(_)
rstrip(s) ==
    IF s # << >> /\ s[Len(s)] \in Whitespace
    THEN rstrip(SubSeq(s, 1, Len(s) - 1))
    ELSE s

strip(s) == rstrip(lstrip(s))

\* whether sep occurs in s at position i
occurs_at(s, sep, i) ==
    /\ i >= 1
    /\ i + Len(sep) - 1 <= Len(s)
    /\ SubSeq(s, i, i + Len(sep) - 1) = sep

\* str.find: the first position of sep in s, 0 when there is none
find(s, sep) ==
    LET hits == {i \in 1..Len(s) : occurs_at(s, sep, i)}
    IN  IF hits = {} THEN 0 ELSE CHOOSE i \in hits : \A j \in hits : i <= j

\* str.rfind: the last position of sep in s, 0 when there is none
rfind(s, sep) ==
    LET hits == {i \in 1..Len(s) : occurs_at(s, sep, i)}
    IN  IF hits = {} THEN 0 ELSE CHOOSE i \in hits : \A j \in hits : j <= i

\* sep in s
contains(s, sep) == find(s, sep) # 0

\* s.split(sep)[0]
split_first(s, sep) ==
    IF contains(s, sep) THEN SubSeq(s, 1, find(s, sep) - 1) ELSE s

\* s.split(sep)[1], for an s that contains sep
split_second(s, sep) ==
    split_first(SubSeq(s, find(s, sep) + Len(sep), Len(s)), sep)

\* s.replace(old, new) for one-token old and new
replace(s, old, new) == [i \in 1..Len(s) |-> IF s[i] = old THEN new ELSE s[i]]

----------------------------------------------------------------------------
(* The base profile on disk, and read_user_profile *)

Paths == {"profile.yaml", "missing.yaml", "locked.yaml", "broken.yaml",
          "empty.yaml", "scalar.yaml", "badtypes.yaml"}

BaseProfile ==
    [candidate |-> [name |-> <<"Ann">>, title |-> <<"Developer">>],
     summary |-> <<"Builds", " ", "services">>,
     contact |-> << <<"555">>, <<"ann@x.org">> >>,
     experience |-> << [title |-> <<"Engineer">>, company |-> <<"Initech">>,
                        achievements |-> << <<"Shipped">> >>] >>,
     skills |-> << [name |-> <<"Technical">>,
                    skills |-> << <<"Python">> >>] >>]

\* what is at each path: no file, a file open() fails on, or a YAML text
ProfileDisk(path) ==
    CASE path = "profile.yaml"  -> [file |-> "yaml", doc |-> "mapping",
                                    typed |-> TRUE, value |-> BaseProfile]
      [] path = "badtypes.yaml" -> [file |-> "yaml", doc |-> "mapping",
                                    typed |-> FALSE, value |-> BaseProfile]
      [] path = "scalar.yaml"   -> [file |-> "yaml", doc |-> "scalar"]
      [] path = "empty.yaml"    -> [file |-> "yaml", doc |-> "null"]
      [] path = "broken.yaml"   -> [file |-> "yaml", doc |-> "invalid"]
      [] path = "locked.yaml"   -> [file |-> "unreadable"]
      [] OTHER                  -> [file |-> "missing"]

read_user_profile(yaml_path) ==
    LET f == ProfileDisk(yaml_path)
    IN  IF f.file = "missing"
        THEN Raise("FileNotFoundError", <<"YAML file not found: ", yaml_path>>)
        ELSE IF f.file = "unreadable"
        \* open() raises, the handler prints, raw_data was never bound
        THEN Raise("UnboundLocalError", <<"raw_data", " referenced before assignment">>)
        ELSE IF f.doc = "invalid"
        THEN Raise("YAMLError", <<"Error parsing YAML file: ", yaml_path>>)
        \* an empty file raises ValueError inside the try: printed, None returned
        ELSE Return(f)

----------------------------------------------------------------------------
(* convert_raw_resume_to_resume_data *)

field(d, k, default) == IF k \in DOMAIN d THEN d[k] ELSE default

\* validate_contact: exactly four items, padded with "" or truncated
validate_contact(v) == [i \in 1..4 |-> IF i <= Len(v) THEN v[i] ELSE << >>]

add_job(job) ==
    [title |-> field(job, "title", <<"Position">>),
     dates |-> field(job, "dates", << >>),
     company |-> field(job, "company", <<"Company">>),
     description |-> field(job, "description", None),
     achievements |-> field(job, "achievements", << >>)]

add_education(edu) ==
    [degree |-> field(edu, "degree", <<"Degree">>),
     graduation_date |-> field(edu, "graduation_date", << >>),
     university |-> field(edu, "university", <<"University">>),
     details |-> field(edu, "details", << >>)]

add_skill_category(cat) ==
    [name |-> field(cat, "name", <<"General">>),
     skills |-> field(cat, "skills", << >>)]

\* a new ResumeData object, filled from a validated document; oid is the
\* identity of the object (what Python's "is" compares)
ResumeData(raw) ==
    LET cand == field(raw, "candidate", EmptyDict)
        exp  == field(raw, "experience", << >>)
        edu  == field(raw, "education", << >>)
        sk   == field(raw, "skills", << >>)
    IN  [oid |-> heap + 1,
         candidate |-> [name |-> field(cand, "name", <<"Unknown">>),
                        title |-> field(cand, "title", <<"Professional">>)],
         summary |-> field(raw, "summary", << >>),
         contact |-> validate_contact(field(raw, "contact", << >>)),
         experience |-> [i \in 1..Len(exp) |-> add_job(exp[i])],
         education |-> [i \in 1..Len(edu) |-> add_education(edu[i])],
         skills |-> [i \in 1..Len(sk) |-> add_skill_category(sk[i])]]

\* raw_resume is a parsed YAML document
convert_raw_resume_to_resume_data(raw_resume) ==
    IF raw_resume.doc # "mapping"
    THEN Raise("ValueError", <<"Error validating resume data: ",
                               "argument after ** must be a mapping">>)
    ELSE IF ~raw_resume.typed
    THEN Raise("ValueError", <<"Error validating resume data: ",
                               "validation error for ResumeYAMLModel">>)
    ELSE Return(ResumeData(raw_resume.value))

----------------------------------------------------------------------------
(* The web, and read_url / read_job_description *)

Urls == {"https://jobs/acme", "https://jobs/blank", "https://jobs/blocked",
         "https://jobs/down"}

PostingText == <<"Acme", " ", "hires", " ", "engineers">>

\* what crawler.arun does for each URL
Crawl(url) ==
    CASE url = "https://jobs/acme"    -> [kind |-> "result", success |-> TRUE,
                                          markdown |-> PostingText]
      [] url = "https://jobs/blank"   -> [kind |-> "result", success |-> TRUE,
                                          markdown |-> << >>,
                                          error_message |-> << >>]
      [] url = "https://jobs/blocked" -> [kind |-> "result", success |-> FALSE,
                                          markdown |-> << >>,
                                          error_message |-> <<"HTTP 403">>]
      [] OTHER                        -> [kind |-> "raise",
                                          msg |-> <<"connection refused">>]

\* read_url returns the page's markdown, or the text of its own error message
read_url(url) ==
    LET r == Crawl(url)
    IN  IF r.kind = "raise"
        THEN <<"Error fetching job description: ">> \o r.msg
        ELSE IF r.success /\ r.markdown # << >>
        THEN r.markdown
        ELSE <<"Error fetching job description: ",
               "Failed to fetch content. Error: ">> \o r.error_message

read_job_description(url) == read_url(url)

----------------------------------------------------------------------------
(* JobRequirements, JobParseResult *)

error_result(error_message) ==
    [success |-> FALSE, job_requirements |-> None,
     error_message |-> Some(error_message)]

success_result(job_requirements) ==
    [success |-> TRUE, job_requirements |-> Some(job_requirements),
     error_message |-> None]

\* the gate letting every record through
has_minimum_data_unchecked(jr) == TRUE

has_minimum_data(jr) == jr.role # << >> /\ jr.raw_description # << >>

\* the JobRequirements constructor: role and raw_description must be strings,
\* company may be missing or null; other keys are ignored
JobRequirements(json_data) ==
    IF \/ "role" \notin DOMAIN json_data
       \/ json_data["role"] = None
       \/ "raw_description" \notin DOMAIN json_data
       \/ json_data["raw_description"] = None
    THEN Raise("ValidationError", <<"validation error for JobRequirements">>)
    ELSE Return([role |-> json_data["role"][1],
                 raw_description |-> json_data["raw_description"][1],
                 company |-> field(json_data, "company", None),
                 technical_skills |-> field(json_data, "technical_skills", << >>),
                 source_url |-> field(json_data, "source_url", None)])

----------------------------------------------------------------------------
(* The replies of the language model to the job parser, and _extract_json *)

\* the token "~~~" stands for the three backquotes of a Markdown code fence
Fence == <<"~~~">>

JsonFence == <<"~~~", "json">>

\* the key and value each member token of a JSON object stands for
Member(tok) ==
    CASE tok = "role:SWE II"      -> <<"role", Some(<<"SWE", " ", "II">>)>>
      [] tok = "role:QA/Dev"      -> <<"role", Some(<<"QA", "/", "Dev">>)>>
      [] tok = "role:"            -> <<"role", Some(<< >>)>>
      [] tok = "role:null"        -> <<"role", None>>
      [] tok = "company:Acme Corp" -> <<"company", Some(<<"Acme", " ", "Corp">>)>>
      [] tok = "company:null"     -> <<"company", None>>
      [] tok = "raw_description:made up" ->
                                     <<"raw_description", Some(<<"made up">>)>>
      [] OTHER                    -> <<"technical_skills", << <<"Python">> >> >>

Members == {"role:SWE II", "role:QA/Dev", "role:", "role:null",
            "company:Acme Corp", "company:null", "raw_description:made up",
            "technical_skills:Python"}

\* the dict of a sequence of members; a later member overrides an earlier one
RECURSIVE members_dict(_)
members_dict(ms) ==
    IF ms = << >> THEN EmptyDict
    ELSE LET m == Member(ms[Len(ms)])
             k == m[1]
             rest == members_dict(SubSeq(ms, 1, Len(ms) - 1))
         IN  [x \in (DOMAIN rest) \cup {k} |-> IF x = k THEN m[2] ELSE rest[x]]

\* whether the text s, without surrounding whitespace, is a JSON object
is_object(s) ==
    /\ Len(s) >= 2
    /\ s[1] = "{"
    /\ s[Len(s)] = "}"
    /\ \A i \in 2..(Len(s) - 1) : s[i] \in Members \cup Whitespace

\* json.loads: an object of members, an array holding at most one object, a
\* number, or a JSONDecodeError
json_loads(json_str) ==
    LET s == strip(json_str)
        inner == SubSeq(s, 2, Len(s) - 1)
        body == SelectSeq(inner, LAMBDA t : t \notin Whitespace)
    IN  IF s = <<"42">>
        THEN Return([type |-> "int"])
        ELSE IF is_object(s)
        THEN Return([type |-> "dict", value |-> members_dict(body)])
        ELSE IF /\ Len(s) >= 2
                /\ s[1] = "["
                /\ s[Len(s)] = "]"
                /\ strip(inner) = << >> \/ is_object(strip(inner))
        THEN Return([type |-> "list"])
        ELSE Raise("JSONDecodeError", <<"Expecting value">>)

_extract_json(text) ==
    LET json_str ==
            IF contains(text, JsonFence)
            THEN strip(split_first(split_second(text, JsonFence), Fence))
            ELSE IF contains(text, Fence)
            THEN strip(split_first(split_second(text, Fence), Fence))
            ELSE LET start_idx == find(text, <<"{">>)
                     end_idx == rfind(text, <<"}">>)
                 IN  IF start_idx # 0 /\ end_idx # 0
                     THEN SubSeq(text, start_idx, end_idx)
                     ELSE strip(text)
    IN  json_loads(json_str)

\* what llm.ainvoke does in the job parser: it raises or replies with a text
ParserReplies ==
    { <<"{", "role:SWE II", "company:Acme Corp", "technical_skills:Python", "}">>,
      <<"~~~", "json", "\n", "{", "role:SWE II", "company:Acme Corp", "}",
        "\n", "~~~">>,
      <<"~~~", "\n", "{", "role:QA/Dev", "}", "\n", "~~~">>,
      <<"{", "role:QA/Dev", "company:Acme Corp", "}">>,
      <<"Sure", "{", "role:QA/Dev", "company:null",
        "raw_description:made up", "}", "Done">>,
      <<"{", "company:Acme Corp", "}">>,
      <<"{", "role:", "company:Acme Corp", "}">>,
      <<"{", "role:null", "}">>,
      <<"Sorry">>,
      <<"42">> }

ParserLLM == {[kind |-> "raise", msg |-> <<"rate limit">>]}
             \cup {[kind |-> "reply", content |-> t] : t \in ParserReplies}

----------------------------------------------------------------------------
(* JobParserAgent.parse_from_text, with the outcome of its llm.ainvoke *)

\* "Add required fields", with raw_description kept when the reply has one
add_required_fields_setdefault(json_data, job_text, source_url) ==
    LET with_raw == merge([raw_description |-> Some(job_text)], json_data)
    IN  IF source_url # << >>
        THEN merge(with_raw, [source_url |-> Some(source_url)])
        ELSE with_raw

\* "Add required fields": raw_description, and source_url when there is one
add_required_fields(json_data, job_text, source_url) ==
    LET with_raw == merge(json_data, [raw_description |-> Some(job_text)])
    IN  IF source_url # << >>
        THEN merge(with_raw, [source_url |-> Some(source_url)])
        ELSE with_raw

parse_from_text(job_text, source_url, llm) ==
    IF llm.kind = "raise"
    THEN error_result(<<"Unexpected error during parsing: ">> \o llm.msg)
    ELSE
    LET parsed == _extract_json(llm.content)
    IN  IF parsed.kind = "raise"
        THEN error_result(<<"Failed to parse JSON from LLM response: ">>
                          \o parsed.msg)
        ELSE IF parsed.value.type # "dict"
        THEN error_result(<<"Unexpected error during parsing: ",
                            "object does not support item assignment">>)
        ELSE
        LET json_data == add_required_fields(parsed.value.value, job_text,
                                             source_url)
            job_requirements == JobRequirements(json_data)
        IN  IF job_requirements.kind = "raise"
            THEN error_result(<<"Failed to validate parsed data: ">>
                              \o job_requirements.msg)
            ELSE IF ~has_minimum_data(job_requirements.value)
            THEN error_result(<<"Parsed job missing minimum required data ",
                                "(role and description)">>)
            ELSE success_result(job_requirements.value)

----------------------------------------------------------------------------
(* ResumeTailoringAgent *)

YamlFence == <<"~~~", "yaml">>

TailoredProfile ==
    [BaseProfile EXCEPT !.candidate.title = <<"Senior", " ", "Developer">>,
                        !.summary = <<"Builds", " ", "Acme", " ", "services">>]

_clean_yaml_response(response) ==
    IF contains(response, YamlFence)
    THEN strip(split_first(split_second(response, YamlFence), Fence))
    ELSE IF contains(response, Fence)
    THEN strip(split_first(split_second(response, Fence), Fence))
    ELSE strip(response)

\* yaml.safe_load: the token "doc:..." is the text of a YAML mapping of
\* several lines, "[" an unclosed flow sequence, any other token a word of
\* plain text.  Blank lines and trailing whitespace are skipped; a mapping
\* whose first line alone is indented does not parse.
yaml_safe_load(text) ==
    LET body == strip(text)
        start == Len(text) - Len(lstrip(text))
        indented == start > 0 /\ text[start] = " "
    IN  IF body = << >>
        THEN Return([doc |-> "null"])
        ELSE IF body = <<"doc:tailored">> /\ ~indented
        THEN Return([doc |-> "mapping", typed |-> TRUE,
                     value |-> TailoredProfile])
        ELSE IF body = <<"doc:badtypes">> /\ ~indented
        THEN Return([doc |-> "mapping", typed |-> FALSE,
                     value |-> TailoredProfile])
        ELSE IF \E i \in 1..Len(body) :
                   body[i] \in {"[", "doc:tailored", "doc:badtypes"}
        THEN Raise("YAMLError", <<"while parsing">>)
        ELSE Return([doc |-> "scalar"])

TailorReplies ==
    { <<"doc:tailored">>,
      <<"~~~", "yaml", "\n", "doc:tailored", "\n", "~~~">>,
      <<"~~~", "\n", "doc:badtypes", "\n", "~~~">>,
      <<"Sorry">>,
      <<"[">>,
      << >> }

\* an exception built without arguments has the empty message
TailorLLM == {[kind |-> "raise", msg |-> <<"timeout">>],
              [kind |-> "raise", msg |-> << >>]}
             \cup {[kind |-> "reply", content |-> t] : t \in TailorReplies}

\* ResumeTailoringAgent.tailor_resume, with the outcome of its llm.ainvoke
agent_tailor_resume(original_resume, job_requirements, llm) ==
    IF llm.kind = "raise"
    THEN Raise("RuntimeError", <<"Failed to tailor resume: ">> \o llm.msg)
    ELSE
    LET tailored_dict == yaml_safe_load(_clean_yaml_response(llm.content))
    IN  IF tailored_dict.kind = "raise"
        THEN Raise("ValueError", <<"Failed to parse tailored YAML: ">>
                                 \o tailored_dict.msg)
        ELSE
        LET tailored_resume ==
                convert_raw_resume_to_resume_data(tailored_dict.value)
        IN  IF tailored_resume.kind = "raise"
            THEN Raise("RuntimeError", <<"Failed to tailor resume: ">>
                                       \o tailored_resume.msg)
            ELSE tailored_resume

----------------------------------------------------------------------------
(* tailor_resume_with_llm, the tool of LangChainCVAgent *)

\* the tool, with the outcome of its llm.invoke: the summary and the artifact
tailor_resume_with_llm(job_description, user_profile, llm) ==
    IF llm.kind = "raise"
    THEN [content |-> <<"Tailoring failed: ">> \o llm.msg,
          artifact |-> user_profile]
    ELSE
    LET response == llm.content
        tailored_yaml ==
            IF contains(response, YamlFence)
            THEN strip(split_first(split_second(response, YamlFence), Fence))
            ELSE IF contains(response, Fence)
            THEN strip(split_first(split_second(response, Fence), Fence))
            ELSE response
        tailored_data == yaml_safe_load(tailored_yaml)
    IN  IF tailored_data.kind = "raise"
        THEN [content |-> <<"Tailoring failed: ">> \o tailored_data.msg,
              artifact |-> user_profile]
        ELSE [content |-> <<"Resume successfully tailored to job requirements">>,
              artifact |-> tailored_data.value]

----------------------------------------------------------------------------
(* generate_cv_html *)

StyleNames == {"default", "modern", "nonexistent"}

\* the style sheets under templates/styles
StyleFiles == {"default", "modern"}

\* the loader falling back to the default style sheet
load_css_content_fallback(style_name) ==
    IF style_name \in StyleFiles
    THEN Return(<<"css:", style_name>>)
    ELSE Return(<<"css:", "default">>)

load_css_content(style_name) ==
    IF style_name \in StyleFiles
    THEN Return(<<"css:", style_name>>)
    ELSE Raise("FileNotFoundError",
               <<"Style file not found: ", style_name, "-styles.css">>)

generate_cv_html(resume_data, style_name) ==
    LET css_content == load_css_content(style_name)
    IN  IF css_content.kind = "raise"
        THEN css_content
        ELSE Return(<<"<html>", "<style>">> \o css_content.value
                    \o <<"</style>">> \o resume_data.candidate.name
                    \o resume_data.candidate.title \o resume_data.summary
                    \o <<"</html>">>)

----------------------------------------------------------------------------
(* html_to_pdf_async *)

\* how far the headless browser gets: "ok", or the call that raises
BrowserOutcomes == {"ok", "launch", "new_page", "set_content", "wait", "pdf",
                    "close"}

\* the file is on disk once page.pdf has returned
pdf_written(browser) == browser \in {"ok", "close"}

\* every exception of the browser is caught and printed: the call returns None
html_to_pdf_async(html_content, output_path, browser) == Return(None)

\* a converter that closes the browser as its last statement and nowhere else
close_on_success_only(outcome) ==
    IF outcome = "ok" THEN "released" ELSE "held"

\* the renderer once the body of "async with async_playwright()" has ended
\* with outcome: leaving the block stops the driver and its browser, whether
\* the body completed, raised or was cancelled
async_with_exit(outcome) == "released"

----------------------------------------------------------------------------
(* export_pdf: the output file name *)

MaxClock == 1

OutputDir == <<"outputs", "/", "tailored_resumes">>

\* datetime.now().strftime("%Y%m%d_%H%M"), the clock counting minutes
strftime(now) ==
    <<"20250101", "_", "09">> \o (IF now < 10 THEN <<"0">> ELSE << >>)
    \o <<ToString(now)>>

\* the cleaning that replaces the spaces only
sanitize_spaces_only(name) == replace(name, " ", "_")

sanitize(name) == replace(replace(name, " ", "_"), "/", "_")

\* the path export_pdf derives, or the fault of calling replace on None
export_path(job_requirements, now) ==
    IF job_requirements.company = None
    THEN Raise("AttributeError",
               <<"'NoneType' object has no attribute 'replace'">>)
    ELSE Return(OutputDir \o <<"/">> \o sanitize(job_requirements.company[1])
                \o <<"_">> \o sanitize(job_requirements.role) \o <<"_">>
                \o strftime(now) \o <<".pdf">>)

----------------------------------------------------------------------------
(* run_workflow: what it gives its caller for the final state *)

\* run_workflow raising a message of its own in place of the recorded error
run_workflow_result_generic(final_state) ==
    IF truthy(final_state, "error")
    THEN [kind |-> "raised", type |-> "RuntimeError",
          msg |-> <<"Workflow failed">>]
    ELSE IF ~truthy(final_state, "pdf_path")
    THEN [kind |-> "raised", type |-> "RuntimeError",
          msg |-> <<"Workflow completed but no PDF was generated">>]
    ELSE [kind |-> "returned", value |-> final_state["pdf_path"]]

run_workflow_result(final_state) ==
    IF truthy(final_state, "error")
    THEN [kind |-> "raised", type |-> "RuntimeError",
          msg |-> final_state["error"]]
    ELSE IF ~truthy(final_state, "pdf_path")
    THEN [kind |-> "raised", type |-> "RuntimeError",
          msg |-> <<"Workflow completed but no PDF was generated">>]
    ELSE [kind |-> "returned", value |-> final_state["pdf_path"]]

----------------------------------------------------------------------------
(* The node functions *)

KeyError(k) == Raise("KeyError", <<"'", k, "'">>)

load_profile(st) ==
    LET user_profile_dict == read_user_profile(st["user_profile_path"][1])
    IN  IF user_profile_dict.kind = "raise"
        THEN user_profile_dict
        ELSE LET original_resume ==
                     convert_raw_resume_to_resume_data(user_profile_dict.value)
             IN  IF original_resume.kind = "raise"
                 THEN original_resume
                 ELSE Return([original_resume |-> original_resume.value])

\* parse_from_url, once the posting text is fetched: an empty text is a failure
fetch_failed(job_text) == job_text = << >>

\* parse_from_url without its try block: a fault of the fetch gets out
parse_from_url_uncaught(url, fetched, llm) ==
    IF fetched.kind = "raise"
    THEN fetched
    ELSE IF fetch_failed(fetched.value)
    THEN error_result(<<"Failed to fetch job description from URL">>)
    ELSE parse_from_text(fetched.value, url, llm)

\* parse_from_url, for what read_job_description returned or raised
parse_from_url(url, fetched, llm) ==
    IF fetched.kind = "raise"
    THEN error_result(<<"Error fetching job from URL: ">> \o fetched.msg)
    ELSE IF fetch_failed(fetched.value)
    THEN error_result(<<"Failed to fetch job description from URL">>)
    ELSE parse_from_text(fetched.value, url, llm)

\* parse_job, once parse_from_url has returned
parse_job(job_result) ==
    IF ~job_result.success
    THEN Return([error |-> <<"Failed to parse job: ">>
                           \o job_result.error_message[1],
                 error_details |-> job_result.error_message[1]])
    ELSE Return([job_parse_result |-> job_result,
                 job_requirements |-> job_result.job_requirements[1]])

\* the node with a tailoring that rewrites the original profile in place and
\* returns it
tailor_resume_in_place(st, llm) ==
    IF "original_resume" \notin DOMAIN st THEN KeyError("original_resume")
    ELSE IF "job_requirements" \notin DOMAIN st THEN KeyError("job_requirements")
    ELSE LET tailored_resume ==
                 agent_tailor_resume(st["original_resume"],
                                     st["job_requirements"], llm)
         IN  IF tailored_resume.kind = "raise"
             THEN tailored_resume
             ELSE LET same == [tailored_resume.value EXCEPT
                                   !.oid = st["original_resume"].oid]
                  IN  Return([original_resume |-> same,
                              tailored_resume |-> same])

tailor_resume(st, llm) ==
    IF "original_resume" \notin DOMAIN st THEN KeyError("original_resume")
    ELSE IF "job_requirements" \notin DOMAIN st THEN KeyError("job_requirements")
    ELSE LET tailored_resume ==
                 agent_tailor_resume(st["original_resume"],
                                     st["job_requirements"], llm)
         IN  IF tailored_resume.kind = "raise"
             THEN tailored_resume
             ELSE Return([tailored_resume |-> tailored_resume.value])

\* a node that also writes style_name back, as the default it rendered with
generate_html_writes_style(st) ==
    IF "tailored_resume" \notin DOMAIN st THEN KeyError("tailored_resume")
    ELSE LET html_content == generate_cv_html(st["tailored_resume"],
                                              "default")
         IN  IF html_content.kind = "raise"
             THEN html_content
             ELSE Return([html_content |-> html_content.value,
                          style_name |-> <<"default">>])

generate_html(st) ==
    IF "tailored_resume" \notin DOMAIN st THEN KeyError("tailored_resume")
    ELSE LET html_content ==
                 generate_cv_html(st["tailored_resume"],
                                  field(st, "style_name", <<"default">>)[1])
         IN  IF html_content.kind = "raise"
             THEN html_content
             ELSE Return([html_content |-> html_content.value])

\* export_pdf up to its await: the path, with the output directory made
export_pdf_path(st, now, mkdir_ok) ==
    IF "job_requirements" \notin DOMAIN st THEN KeyError("job_requirements")
    ELSE LET pdf_path == export_path(st["job_requirements"], now)
         IN  IF pdf_path.kind = "raise" THEN pdf_path
             ELSE IF ~mkdir_ok
             THEN Raise("OSError", <<"cannot create directory">>)
             ELSE IF "html_content" \notin DOMAIN st
             THEN KeyError("html_content")
             ELSE pdf_path

\* export_pdf after its await of html_to_pdf_async
export_pdf(pdf_path, converted) ==
    IF converted.kind = "raise"
    THEN converted
    ELSE Return([pdf_path |-> pdf_path])

\* the first await of each node function ("body" when it has none)
FirstAwait(n) ==
    CASE n = "parse_job"     -> "fetch"
      [] n = "tailor_resume" -> "llm"
      [] OTHER               -> "body"

----------------------------------------------------------------------------
(* The run: run_workflow, the graph engine and the wrapped nodes *)

\* the process before run_workflow is called
NoRun ==
    /\ pc = "NotStarted"
    /\ state = EmptyDict
    /\ active = {}
    /\ at = [n \in Nodes |-> "idle"]
    /\ local = [n \in Nodes |-> EmptyDict]
    /\ update = [n \in Nodes |-> EmptyDict]
    /\ entered = << >>
    /\ calls = << >>
    /\ failed = {}
    /\ env = [crawl |-> "none", browser |-> "none", mkdir |-> "none",
              renderer |-> "none"]
    /\ files = {}
    /\ clock = 0
    /\ result = [kind |-> "none"]
    /\ heap = 0
    /\ history = << >>

Init ==
    /\ NoRun
    /\ args = EmptyDict
    /\ ret = [fn |-> "none"]

\* run_workflow builds the graph and the initial state and invokes the graph
Start ==
    /\ pc = "NotStarted"
    /\ \E url \in Urls, path \in Paths, style \in StyleNames :
          state' = [job_url |-> <<url>>, user_profile_path |-> <<path>>,
                    style_name |-> <<style>>]
    /\ active' = {EntryPoint}
    /\ pc' = "invoke"
    /\ UNCHANGED <<at, local, update, entered, calls, failed, env, files,
                   clock, result>>
    /\ UNCHANGED <<heap, history, args, ret>>

\* time passes while the graph runs
Tick ==
    /\ pc = "invoke"
    /\ clock < MaxClock
    /\ clock' = clock + 1
    /\ UNCHANGED <<pc, state, active, at, local, update, entered, calls,
                   failed, env, files, result>>
    /\ UNCHANGED <<heap, history, args, ret>>

\* the wrapper of node n is invoked: it skips the node or starts its function
Enter(n) ==
    /\ pc = "invoke"
    /\ n \in active
    /\ at[n] = "idle"
    /\ entered' = Append(entered, n)
    /\ IF wrapper_skips(state)
       THEN /\ update' = [update EXCEPT ![n] = EmptyDict]
            /\ at' = [at EXCEPT ![n] = "returned"]
       ELSE /\ update' = update
            /\ at' = [at EXCEPT ![n] = FirstAwait(n)]
    /\ UNCHANGED <<pc, state, active, local, calls, failed, env, files,
                   clock, result>>
    /\ UNCHANGED <<heap, history, args, ret>>

\* the function of node n ended with outcome: the wrapper turns it into the
\* dict the node returns; a fault the wrapper lets through ends ainvoke and
\* run_workflow re-raises it
NodeReturns(n, outcome) ==
    LET w == wrapper_result(n, outcome)
        how == IF outcome.kind = "raise"
               THEN {<<n, "fault", outcome.msg>>}
               ELSE IF truthy(outcome.value, "error")
               THEN {<<n, "domain", outcome.value["error"]>>}
               ELSE {}
    IN  /\ failed' = failed \cup how
        /\ IF w.kind = "return"
           THEN /\ update' = [update EXCEPT ![n] = w.value]
                /\ at' = [at EXCEPT ![n] = "returned"]
                /\ UNCHANGED <<pc, active, result>>
           ELSE /\ at' = [at EXCEPT ![n] = "idle"]
                /\ active' = {}
                /\ pc' = "done"
                /\ result' = [kind |-> "raised", type |-> w.type,
                              msg |-> w.msg]
                /\ UNCHANGED update

LoadProfile ==
    /\ pc = "invoke"
    /\ at["load_profile"] = "body"
    /\ calls' = calls \o <<"read_user_profile">>
                \o (IF read_user_profile(state["user_profile_path"][1]).kind
                       = "return"
                    THEN <<"convert_raw_resume_to_resume_data">> ELSE << >>)
    /\ NodeReturns("load_profile", load_profile(state))
    /\ UNCHANGED <<state, local, entered, env, files, clock>>
    /\ heap' = IF load_profile(state).kind = "return" THEN heap + 1 ELSE heap
    /\ UNCHANGED <<history, args, ret>>

\* parse_from_url awaits read_job_description
ParseJobFetch ==
    /\ pc = "invoke"
    /\ at["parse_job"] = "fetch"
    /\ LET url == state["job_url"][1]
           job_text == read_job_description(url)
           r == Crawl(url)
       IN  /\ calls' = Append(calls, "read_job_description")
           /\ env' = [env EXCEPT !.crawl =
                         IF r.kind = "raise" THEN "raised"
                         ELSE IF ~r.success THEN "unsuccessful"
                         ELSE IF r.markdown = << >> THEN "empty" ELSE "ok"]
           /\ IF fetch_failed(job_text)
              THEN /\ NodeReturns("parse_job", parse_job(error_result(
                          <<"Failed to fetch job description from URL">>)))
                   /\ local' = local
              ELSE /\ local' = [local EXCEPT !["parse_job"] =
                                   [job_text |-> job_text]]
                   /\ at' = [at EXCEPT !["parse_job"] = "llm"]
                   /\ UNCHANGED <<pc, active, update, failed, result>>
    /\ UNCHANGED <<state, entered, files, clock>>
    /\ UNCHANGED <<heap, history, args, ret>>

\* parse_from_text awaits llm.ainvoke
ParseJobLLM ==
    /\ pc = "invoke"
    /\ at["parse_job"] = "llm"
    /\ \E llm \in ParserLLM :
          NodeReturns("parse_job",
                      parse_job(parse_from_text(local["parse_job"].job_text,
                                                state["job_url"], llm)))
    /\ calls' = Append(calls, "parser.llm.ainvoke")
    /\ UNCHANGED <<state, local, entered, env, files, clock>>
    /\ UNCHANGED <<heap, history, args, ret>>

\* tailor_resume awaits the tailoring agent, which awaits llm.ainvoke
TailorResume ==
    /\ pc = "invoke"
    /\ at["tailor_resume"] = "llm"
    /\ \E llm \in TailorLLM :
          LET outcome == tailor_resume(state, llm)
          IN  /\ NodeReturns("tailor_resume", outcome)
              /\ heap' = IF outcome.kind = "return" THEN heap + 1 ELSE heap
    /\ calls' = IF {"original_resume", "job_requirements"} \subseteq DOMAIN state
                THEN Append(calls, "tailor.llm.ainvoke") ELSE calls
    /\ UNCHANGED <<state, local, entered, env, files, clock>>
    /\ UNCHANGED <<history, args, ret>>

GenerateHtml ==
    /\ pc = "invoke"
    /\ at["generate_html"] = "body"
    /\ NodeReturns("generate_html", generate_html(state))
    /\ calls' = IF "tailored_resume" \in DOMAIN state
                THEN Append(calls, "generate_cv_html") ELSE calls
    /\ UNCHANGED <<state, local, entered, env, files, clock>>
    /\ UNCHANGED <<heap, history, args, ret>>

\* export_pdf derives the path and makes the output directory
ExportPdfPath ==
    /\ pc = "invoke"
    /\ at["export_pdf"] = "body"
    /\ \E mkdir_ok \in BOOLEAN :
          LET p == export_pdf_path(state, clock, mkdir_ok)
          IN  /\ env' = [env EXCEPT !.mkdir =
                            IF mkdir_ok THEN "ok" ELSE "failed"]
              /\ IF p.kind = "raise"
                 THEN /\ NodeReturns("export_pdf", p)
                      /\ local' = local
                 ELSE /\ local' = [local EXCEPT !["export_pdf"] =
                                      [pdf_path |-> p.value]]
                      /\ at' = [at EXCEPT !["export_pdf"] = "pdf"]
                      /\ UNCHANGED <<pc, active, update, failed, result>>
    /\ UNCHANGED <<state, entered, calls, files, clock>>
    /\ UNCHANGED <<heap, history, args, ret>>

\* export_pdf awaits html_to_pdf_async, which enters "async with
\* async_playwright()": the driver of the headless browser is started
ExportPdfLaunch ==
    /\ pc = "invoke"
    /\ at["export_pdf"] = "pdf"
    /\ env' = [env EXCEPT !.renderer = "held"]
    /\ at' = [at EXCEPT !["export_pdf"] = "browser"]
    /\ calls' = Append(calls, "html_to_pdf_async")
    /\ UNCHANGED <<pc, state, active, local, update, entered, failed, files,
                   clock, result>>
    /\ UNCHANGED <<heap, history, args, ret>>

\* the browser calls inside the block run up to the one that raises, the
\* block is left, and html_to_pdf_async returns to export_pdf
ExportPdfConvert ==
    /\ pc = "invoke"
    /\ at["export_pdf"] = "browser"
    /\ \E browser \in BrowserOutcomes :
          LET pdf_path == local["export_pdf"].pdf_path
          IN  /\ env' = [env EXCEPT !.browser = browser,
                                    !.renderer = async_with_exit(browser)]
              /\ files' = IF pdf_written(browser)
                          THEN files \cup {pdf_path} ELSE files
              /\ NodeReturns("export_pdf",
                     export_pdf(pdf_path,
                                html_to_pdf_async(state["html_content"],
                                                  pdf_path, browser)))
    /\ UNCHANGED <<state, local, entered, calls, clock>>
    /\ UNCHANGED <<heap, history, args, ret>>

\* the engine writes the dict node n returned and schedules its successors
Write(n) ==
    /\ pc = "invoke"
    /\ at[n] = "returned"
    /\ state' = merge(state, update[n])
    /\ active' = (active \ {n}) \cup (Successors(n) \ {"END"})
    /\ at' = [at EXCEPT ![n] = "idle"]
    /\ update' = [update EXCEPT ![n] = EmptyDict]
    /\ local' = [local EXCEPT ![n] = EmptyDict]
    /\ UNCHANGED <<pc, entered, calls, failed, env, files, clock, result>>
    /\ UNCHANGED <<heap, history, args, ret>>

\* ainvoke returns the final state and run_workflow inspects it
Finish ==
    /\ pc = "invoke"
    /\ active = {}
    /\ result' = run_workflow_result(state)
    /\ pc' = "done"
    /\ UNCHANGED <<state, active, at, local, update, entered, calls, failed,
                   env, files, clock>>
    /\ UNCHANGED <<heap, history, args, ret>>

Next ==
    \/ Start
    \/ Tick
    \/ \E n \in Nodes : Enter(n)
    \/ LoadProfile
    \/ ParseJobFetch
    \/ ParseJobLLM
    \/ TailorResume
    \/ GenerateHtml
    \/ ExportPdfPath
    \/ ExportPdfLaunch
    \/ ExportPdfConvert
    \/ \E n \in Nodes : Write(n)
    \/ Finish

Spec == Init /\ [][Next]_vars

----------------------------------------------------------------------------
(* The run when the event loop keeps running it *)

\* a step of the graph engine or of a node function
RunStep ==
    \/ \E n \in Nodes : Enter(n)
    \/ LoadProfile
    \/ ParseJobFetch
    \/ ParseJobLLM
    \/ TailorResume
    \/ GenerateHtml
    \/ ExportPdfPath
    \/ ExportPdfLaunch
    \/ ExportPdfConvert
    \/ \E n \in Nodes : Write(n)
    \/ Finish

\* asyncio.run drives the coroutine of run_workflow until it completes, and
\* every awaited collaborator call returns or raises: a step that can be
\* taken is taken
SpecFair == Init /\ [][Next]_vars /\ WF_vars(RunStep)

----------------------------------------------------------------------------
(* The run under interruption *)

\* the awaits a cancellation can be delivered at
Awaits == {"fetch", "llm", "browser"}

\* the task of run_workflow is cancelled while node n is suspended at an
\* await: CancelledError is no Exception, so neither html_to_pdf_async nor the
\* wrapper catches it; it unwinds the node, leaving the "async with" block on
\* its way, and run_workflow lets it through
Interrupt(n) ==
    /\ pc = "invoke"
    /\ at[n] \in Awaits
    /\ env' = IF env.renderer = "held"
              THEN [env EXCEPT !.renderer = async_with_exit("cancelled")]
              ELSE env
    /\ at' = [at EXCEPT ![n] = "idle"]
    /\ active' = {}
    /\ pc' = "done"
    /\ result' = [kind |-> "raised", type |-> "CancelledError", msg |-> << >>]
    /\ UNCHANGED <<state, local, update, entered, calls, failed, files,
                   clock>>
    /\ UNCHANGED <<heap, history, args, ret>>

InterruptNext ==
    \/ Next
    \/ \E n \in Nodes : Interrupt(n)

SpecInterrupt == Init /\ [][InterruptNext]_vars

----------------------------------------------------------------------------
(* Direct calls of the functions of JobParserAgent, over every reply text *)

MaxLen == 4

\* every text of at most n tokens over an alphabet
Texts(alphabet, n) == UNION {[1..k -> alphabet] : k \in 0..n}

ParserAlphabet == {"~~~", "json", "\n", "{", "}", "role:SWE II"}

\* the reply texts the functions are called with
ParserTexts ==
    ParserReplies
    \cup { <<"[", "{", "role:SWE II", "company:Acme Corp", "}", "]">>,
           <<"[", "]">>,
           <<"~~~", "json", "\n", "[", "{", "role:SWE II", "}", "]", "\n",
             "~~~">> }
    \cup Texts(ParserAlphabet, MaxLen)

ParserArgs ==
    [llm : ParserLLM \cup {[kind |-> "reply", content |-> t] : t \in ParserTexts},
     job_text : {<< >>, PostingText},
     source_url : {<< >>, <<"https://jobs/acme">>}]

ParserInit ==
    /\ NoRun
    /\ args \in ParserArgs
    /\ ret = [fn |-> "none"]

CallExtractJson ==
    /\ ret.fn = "none"
    /\ args.llm.kind = "reply"
    /\ ret' = [fn |-> "_extract_json",
               value |-> _extract_json(args.llm.content)]
    /\ UNCHANGED <<runvars, history, args>>

CallParseFromText ==
    /\ ret.fn = "none"
    /\ ret' = [fn |-> "parse_from_text",
               value |-> parse_from_text(args.job_text, args.source_url,
                                         args.llm)]
    /\ UNCHANGED <<runvars, history, args>>

\* the wrapped node parse_job, for the text read_job_description returned
CallParseJob ==
    /\ ret.fn = "none"
    /\ args.source_url # << >>
    /\ ret' = [fn |-> "parse_job",
               value |-> wrapper_result("parse_job",
                             parse_job(parse_from_url(args.source_url,
                                                      Return(args.job_text),
                                                      args.llm))).value]
    /\ UNCHANGED <<runvars, history, args>>

\* what the patched read_job_description of a test does when it raises
FetchFaults == {Raise("TimeoutError", <<"timed out">>)}

\* parse_from_url, with read_job_description returning the text or raising
CallParseFromUrl ==
    /\ ret.fn = "none"
    /\ args.source_url # << >>
    /\ \E fetched \in {Return(args.job_text)} \cup FetchFaults :
          ret' = [fn |-> "parse_from_url",
                  fetched |-> fetched,
                  value |-> parse_from_url(args.source_url, fetched,
                                           args.llm)]
    /\ UNCHANGED <<runvars, history, args>>

ParserNext ==
    \/ CallExtractJson
    \/ CallParseFromText
    \/ CallParseJob
    \/ CallParseFromUrl

SpecParser == ParserInit /\ [][ParserNext]_vars

----------------------------------------------------------------------------
(* Direct calls of the tailoring functions, over every reply text *)

TailorAlphabet == {"~~~", "yaml", " ", "\n", "doc:tailored", "Sorry"}

TailorTexts == TailorReplies \cup Texts(TailorAlphabet, MaxLen)

\* the dict read_user_profile gives for the base profile
UserProfile == read_user_profile("profile.yaml").value

TailorArgs ==
    [llm : TailorLLM \cup {[kind |-> "reply", content |-> t] : t \in TailorTexts},
     user_profile : {UserProfile}]

TailorInit ==
    /\ NoRun
    /\ args \in TailorArgs
    /\ ret = [fn |-> "none"]

CallCleanYamlResponse ==
    /\ ret.fn = "none"
    /\ args.llm.kind = "reply"
    /\ ret' = [fn |-> "_clean_yaml_response",
               value |-> _clean_yaml_response(args.llm.content)]
    /\ UNCHANGED <<runvars, history, args>>

\* the state the node tailor_resume is given: the profile is an object
\* constructed earlier, the requirements are those of the posting
TailorState ==
    [original_resume |->
         [convert_raw_resume_to_resume_data(args.user_profile).value
              EXCEPT !.oid = 0],
     job_requirements |->
         [role |-> <<"SWE", " ", "II">>, raw_description |-> PostingText,
          company |-> Some(<<"Acme", " ", "Corp">>),
          technical_skills |-> << >>, source_url |-> None]]

\* the wrapped node tailor_resume
CallTailorResume ==
    /\ ret.fn = "none"
    /\ ret' = [fn |-> "tailor_resume",
               value |-> wrapper_result("tailor_resume",
                             tailor_resume(TailorState, args.llm)).value]
    /\ UNCHANGED <<runvars, history, args>>

CallTailorResumeWithLlm ==
    /\ ret.fn = "none"
    /\ ret' = [fn |-> "tailor_resume_with_llm",
               value |-> tailor_resume_with_llm(PostingText,
                                                args.user_profile, args.llm)]
    /\ UNCHANGED <<runvars, history, args>>

TailorNext ==
    CallCleanYamlResponse \/ CallTailorResume \/ CallTailorResumeWithLlm

SpecTailor == TailorInit /\ [][TailorNext]_vars

----------------------------------------------------------------------------
(* Successive calls of run_workflow in one output directory *)

MaxRuns == 3

\* the requirements parse_job stores for the posting, one per reply it accepts
RunRequirements ==
    {r.job_requirements[1] :
        r \in {q \in {parse_from_text(PostingText, <<"https://jobs/acme">>, llm) :
                         llm \in ParserLLM} : q.success}}

\* time passes between two calls
Elapse ==
    /\ clock < MaxClock
    /\ clock' = clock + 1
    /\ UNCHANGED <<pc, state, active, at, local, update, entered, calls,
                   failed, env, files, result, heap, history, args, ret>>

\* one call of run_workflow, from its export step on: the steps before it
\* succeeded and left the requirements and the document in the state
RunWorkflow ==
    /\ Len(history) < MaxRuns
    /\ \E job_requirements \in RunRequirements, browser \in BrowserOutcomes :
          LET st == [job_requirements |-> job_requirements,
                     html_content |-> <<"<html>", "</html>">>]
              pdf_path == export_pdf_path(st, clock, TRUE)
              outcome == IF pdf_path.kind = "raise"
                         THEN pdf_path
                         ELSE export_pdf(pdf_path.value,
                                  html_to_pdf_async(st["html_content"],
                                                    pdf_path.value, browser))
              final_state == merge(st, wrapper_result("export_pdf",
                                                      outcome).value)
          IN  /\ result' = run_workflow_result(final_state)
              /\ history' = Append(history,
                                   [job_requirements |-> job_requirements,
                                    result |-> result'])
              /\ files' = IF pdf_path.kind = "return" /\ pdf_written(browser)
                          THEN files \cup {pdf_path.value} ELSE files
    /\ UNCHANGED <<pc, state, active, at, local, update, entered, calls,
                   failed, env, clock, heap, args, ret>>

RunsNext == Elapse \/ RunWorkflow

SpecRuns == Init /\ [][RunsNext]_vars

----------------------------------------------------------------------------
(* The two drivers, as functions of what the collaborators do *)

\* the collaborators the function of node n invokes in state st; c has the
\* outcomes of the model calls, of mkdir and of the browser, and the time
node_calls(n, st, c) ==
    CASE n = "load_profile" ->
             <<"read_user_profile">>
             \o (IF read_user_profile(st["user_profile_path"][1]).kind
                    = "return"
                 THEN <<"convert_raw_resume_to_resume_data">> ELSE << >>)
      [] n = "parse_job" ->
             <<"read_job_description">>
             \o (IF fetch_failed(read_job_description(st["job_url"][1]))
                 THEN << >> ELSE <<"parser.llm.ainvoke">>)
      [] n = "tailor_resume" ->
             IF {"original_resume", "job_requirements"} \subseteq DOMAIN st
             THEN <<"tailor.llm.ainvoke">> ELSE << >>
      [] n = "generate_html" ->
             IF "tailored_resume" \in DOMAIN st
             THEN <<"generate_cv_html">> ELSE << >>
      [] n = "export_pdf" ->
             IF export_pdf_path(st, c.now, c.mkdir_ok).kind = "return"
             THEN <<"html_to_pdf_async">> ELSE << >>

\* how the function of node n ends in state st
node_outcome(n, st, c) ==
    CASE n = "load_profile" -> load_profile(st)
      [] n = "parse_job" ->
             parse_job(parse_from_url(
                 st["job_url"],
                 Return(read_job_description(st["job_url"][1])),
                 c.parser_llm))
      [] n = "tailor_resume" -> tailor_resume(st, c.tailor_llm)
      [] n = "generate_html" -> generate_html(st)
      [] n = "export_pdf" ->
             LET pdf_path == export_pdf_path(st, c.now, c.mkdir_ok)
             IN  IF pdf_path.kind = "raise"
                 THEN pdf_path
                 ELSE export_pdf(pdf_path.value,
                                 html_to_pdf_async(st["html_content"],
                                                   pdf_path.value, c.browser))

\* app.ainvoke from node n on: each wrapped node in turn, what it returns
\* merged into the state, until END
RECURSIVE ainvoke(_, _, _, _)
ainvoke(n, st, called, c) ==
    IF n = "END"
    THEN [final_state |-> st, calls |-> called]
    ELSE LET next == CHOOSE m \in Successors(n) : TRUE
         IN  IF wrapper_skips(st)
             THEN ainvoke(next, st, called, c)
             ELSE ainvoke(next,
                          merge(st, wrapper_result(n, node_outcome(n, st, c))
                                        .value),
                          called \o node_calls(n, st, c), c)

\* the graph driver: the collaborators it invoked and what its caller gets
run_workflow(job_url, user_profile_path, style_name, c) ==
    LET initial_state == [job_url |-> <<job_url>>,
                          user_profile_path |-> <<user_profile_path>>,
                          style_name |-> <<style_name>>]
        r == ainvoke(EntryPoint, initial_state, << >>, c)
    IN  [calls |-> r.calls, result |-> run_workflow_result(r.final_state)]

\* the sequential driver: five try blocks, each returning None on a fault
run_complete_workflow(job_url, user_profile_path, c) ==
    LET user_profile_dict == read_user_profile(user_profile_path)
        calls1 == <<"read_user_profile">>
    IN  IF user_profile_dict.kind = "raise"
        THEN [calls |-> calls1, value |-> None]
        ELSE
    LET original_resume ==
            convert_raw_resume_to_resume_data(user_profile_dict.value)
        calls2 == Append(calls1, "convert_raw_resume_to_resume_data")
    IN  IF original_resume.kind = "raise"
        THEN [calls |-> calls2, value |-> None]
        ELSE
    LET job_text == read_job_description(job_url)
        job_result == parse_from_url(<<job_url>>, Return(job_text),
                                     c.parser_llm)
        calls3 == Append(calls2, "read_job_description")
                  \o (IF fetch_failed(job_text)
                      THEN << >> ELSE <<"parser.llm.ainvoke">>)
    IN  IF ~job_result.success
        THEN [calls |-> calls3, value |-> None]
        ELSE
    LET job_requirements == job_result.job_requirements[1]
        tailored_resume == agent_tailor_resume(original_resume.value,
                                               job_requirements, c.tailor_llm)
        calls4 == Append(calls3, "tailor.llm.ainvoke")
    IN  IF tailored_resume.kind = "raise"
        THEN [calls |-> calls4, value |-> None]
        ELSE
    LET html_content == generate_cv_html(tailored_resume.value, "default")
        calls5 == Append(calls4, "generate_cv_html")
    IN  IF html_content.kind = "raise"
        THEN [calls |-> calls5, value |-> None]
        ELSE
    LET pdf_path == export_path(job_requirements, c.now)
    IN  IF pdf_path.kind = "raise" \/ ~c.mkdir_ok
        THEN [calls |-> calls5, value |-> None]
        ELSE
    LET converted == html_to_pdf_async(html_content.value, pdf_path.value,
                                       c.browser)
        calls6 == Append(calls5, "html_to_pdf_async")
    IN  IF converted.kind = "raise"
        THEN [calls |-> calls6, value |-> None]
        ELSE [calls |-> calls6, value |-> Some(pdf_path.value)]

\* the inputs of a driver and what each collaborator does when it is called
DriverArgs ==
    [job_url : Urls, user_profile_path : Paths, parser_llm : ParserLLM,
     tailor_llm : TailorLLM, mkdir_ok : BOOLEAN, browser : BrowserOutcomes,
     now : 0..MaxClock]

DriverInit ==
    /\ NoRun
    /\ args \in DriverArgs
    /\ ret = [fn |-> "none"]

CallRunCompleteWorkflow ==
    /\ ret.fn = "none"
    /\ LET r == run_complete_workflow(args.job_url, args.user_profile_path,
                                      args)
       IN  ret' = [fn |-> "run_complete_workflow", calls |-> r.calls,
                   value |-> r.value]
    /\ UNCHANGED <<runvars, history, args>>

CallRunWorkflow ==
    /\ ret.fn = "none"
    /\ \E style_name \in StyleNames :
          LET r == run_workflow(args.job_url, args.user_profile_path,
                                style_name, args)
          IN  ret' = [fn |-> "run_workflow", style_name |-> style_name,
                      calls |-> r.calls, result |-> r.result]
    /\ UNCHANGED <<runvars, history, args>>

DriverNext == CallRunCompleteWorkflow \/ CallRunWorkflow

SpecDrivers == DriverInit /\ [][DriverNext]_vars

----------------------------------------------------------------------------
(* Properties of the run *)

NodeOrder == <<"load_profile", "parse_job", "tailor_resume", "generate_html",
               "export_pdf">>

\* the place of node n in the pipeline
Pos(n) == CHOOSE i \in 1..Len(NodeOrder) : NodeOrder[i] = n

CollaboratorOrder == <<"read_user_profile",
                       "convert_raw_resume_to_resume_data",
                       "read_job_description", "parser.llm.ainvoke",
                       "tailor.llm.ainvoke", "generate_cv_html",
                       "html_to_pdf_async">>

CallPos(c) == CHOOSE i \in 1..Len(CollaboratorOrder) : CollaboratorOrder[i] = c

\* the node whose function invokes collaborator c
NodeOfCall(c) ==
    CASE c \in {"read_user_profile", "convert_raw_resume_to_resume_data"}
             -> "load_profile"
      [] c \in {"read_job_description", "parser.llm.ainvoke"} -> "parse_job"
      [] c = "tailor.llm.ainvoke" -> "tailor_resume"
      [] c = "generate_cv_html" -> "generate_html"
      [] OTHER -> "export_pdf"

ErrorKeys == {"error", "error_step", "error_details"}

\* the error fields present in a dict
ErrorInfo(d) == [k \in ErrorKeys \cap DOMAIN d |-> d[k]]

\* C1: when the wrapper of a step is invoked with error set in the context,
\* and when the engine then writes what it returned, the step's function is
\* not started, no collaborator is invoked, the wrapper returns the empty
\* dict, and the context, the disk and the run's result are unchanged.
C1_ShortCircuit ==
    [][\A n \in Nodes :
          (truthy(state, "error") /\ at'[n] # at[n])
          => /\ at'[n] \in {"idle", "returned"}
             /\ update'[n] = EmptyDict
             /\ state' = state
             /\ calls' = calls
             /\ env' = env
             /\ files' = files
             /\ result' = result]_vars

\* C1 witness: load_profile failed and the four later steps were all invoked
\* and written with the error set.
C1_Witness ==
    /\ pc = "done"
    /\ truthy(state, "error")
    /\ state["error_step"] = <<"load_profile">>
    /\ entered = NodeOrder

\* C2: at the end of a run in which exactly one step function failed, the
\* context's error_step is the name of that step.
C2_SingleFirstError ==
    (pc = "done" /\ Cardinality(failed) = 1)
    => \A f \in failed :
          /\ "error_step" \in DOMAIN state
          /\ state["error_step"] = <<f[1]>>

\* C2 witness: parse_job failed by a returned (domain) error, three steps
\* followed it, and the run is over.
C2_Witness ==
    /\ pc = "done"
    /\ \E f \in failed : f[1] = "parse_job" /\ f[2] = "domain"
    /\ entered = NodeOrder

\* C3: the wrappers are entered in pipeline order, each at most once; at most
\* one node is in flight; a node is in flight only when every node before it
\* has been entered and has returned; and the collaborators are invoked in
\* the order profile read, posting fetch, requirements extraction, tailoring,
\* rendering, export, none twice.
C3_FixedOrder ==
    /\ Len(entered) <= Len(NodeOrder)
    /\ entered = SubSeq(NodeOrder, 1, Len(entered))
    /\ Cardinality({n \in Nodes : at[n] # "idle"}) <= 1
    /\ Cardinality(active) <= 1
    /\ \A n \in Nodes :
          at[n] # "idle"
          => /\ Len(entered) = Pos(n)
             /\ \A m \in Nodes : Pos(m) < Pos(n) => at[m] = "idle"
    /\ \A i, j \in 1..Len(calls) :
          i < j => CallPos(calls[i]) < CallPos(calls[j])

\* C3 witness: a run in which all five steps ran their functions.
C3_Witness ==
    /\ pc = "done"
    /\ entered = NodeOrder
    /\ calls = CollaboratorOrder

\* C4: a fault raised by a step's function never leaves the wrapper: the
\* wrapper returns, and the engine writes, a dict whose error is
\* "Failed in <step>: <message>", whose error_step is the step and whose
\* error_details is the fault's message; run_workflow raises only what it
\* builds itself from the final state.
C4_FaultContained ==
    /\ \A f \in failed :
          f[2] = "fault"
          => LET d == IF at[f[1]] = "returned" THEN update[f[1]] ELSE state
             IN  /\ ErrorKeys \subseteq DOMAIN d
                 /\ d["error"] = <<"Failed in ", f[1], ": ">> \o f[3]
                 /\ d["error_step"] = <<f[1]>>
                 /\ d["error_details"] = f[3]
    /\ result.kind = "raised"
       => /\ active = {}
          /\ result.type = "RuntimeError"
          /\ result = run_workflow_result(state)

\* C4 witness: the tailoring step raised and the run is over.
C4_Witness ==
    /\ pc = "done"
    /\ \E f \in failed : f[1] = "tailor_resume" /\ f[2] = "fault"

\* C5: when the run is over: if error is set, run_workflow raised exactly the
\* recorded error and no collaborator of a step after the failing one was
\* invoked; if error is not set and pdf_path is absent, it raised the "no PDF
\* was generated" error; otherwise it returned pdf_path.  It returns a path
\* only when no error is recorded.
C5_TerminalResult ==
    pc = "done"
    => /\ truthy(state, "error")
          => /\ result = [kind |-> "raised", type |-> "RuntimeError",
                          msg |-> state["error"]]
             /\ \A i \in 1..Len(calls) :
                   Pos(NodeOfCall(calls[i])) <= Pos(state["error_step"][1])
       /\ (~truthy(state, "error") /\ ~truthy(state, "pdf_path"))
          => result = [kind |-> "raised", type |-> "RuntimeError",
                       msg |-> <<"Workflow completed but no PDF was generated">>]
       /\ (~truthy(state, "error") /\ truthy(state, "pdf_path"))
          => result = [kind |-> "returned", value |-> state["pdf_path"]]
       /\ result.kind \in {"raised", "returned"}
       /\ result.kind = "returned" => failed = {}

\* C5 witness: a run that failed in the rendering step and raised.
C5_Witness ==
    /\ pc = "done"
    /\ result.kind = "raised"
    /\ truthy(state, "error")
    /\ state["error_step"] = <<"generate_html">>

\* C6: once error is set in the context, no step changes error, error_step or
\* error_details; and at the end of a failed run they are the ones of the
\* failing step that comes first in pipeline order.
C6_ErrorWriteOnce ==
    /\ [][truthy(state, "error") => ErrorInfo(state') = ErrorInfo(state)]_vars
    /\ [](pc = "done" /\ failed # {}
          => \E f \in failed :
                /\ \A g \in failed : Pos(f[1]) <= Pos(g[1])
                /\ ErrorKeys \subseteq DOMAIN state
                /\ state["error_step"] = <<f[1]>>
                /\ state["error"] =
                      IF f[2] = "fault"
                      THEN <<"Failed in ", f[1], ": ">> \o f[3] ELSE f[3])

\* C6 witness: the tailoring step failed on a language model fault with the
\* empty message, two steps followed, and the run is over with that error
\* still recorded.
C6_Witness ==
    /\ pc = "done"
    /\ entered = NodeOrder
    /\ truthy(state, "error")
    /\ state["error_step"] = <<"tailor_resume">>
    /\ state["error_details"] = <<"Failed to tailor resume: ">>

\* the set of the collaborators invoked so far
Called == {calls[i] : i \in 1..Len(calls)}

\* C7: pdf_path is in the context, and a path is returned to the caller, only
\* if the export collaborator ran to completion without a fault (launch, new
\* page, set content, idle wait, PDF write and close all succeeded).
C7_PdfPathOnlyAfterExport ==
    (truthy(state, "pdf_path") \/ result.kind = "returned")
    => env.browser = "ok"

\* C8: a run in which the export collaborator faulted ends with run_workflow
\* raising and with error_step export_pdf in the context.
C8_ExportFaultFailsRun ==
    (pc = "done" /\ env.browser \notin {"none", "ok"})
    => /\ result.kind = "raised"
       /\ truthy(state, "error")
       /\ state["error_step"] = <<"export_pdf">>

\* C9: in every failing run the error run_workflow raises contains the name
\* of the step recorded in error_step and the message recorded in
\* error_details.
C9_RaisedErrorNamesStep ==
    (pc = "done" /\ failed # {})
    => /\ result.kind = "raised"
       /\ ErrorKeys \subseteq DOMAIN state
       /\ contains(result.msg, state["error_step"])
       /\ contains(result.msg, state["error_details"])

\* C10: a run whose crawl returned an empty posting text ends with
\* run_workflow raising, with the error step that of the posting fetch
\* (parse_job is the node that fetches), with no language model invoked and
\* with no requirements, tailored profile, document or output path produced.
C10_EmptyFetchFailsBeforeLLM ==
    (pc = "done" /\ env.crawl = "empty")
    => /\ result.kind = "raised"
       /\ truthy(state, "error")
       /\ state["error_step"] \in {<<"posting-fetch">>, <<"parse_job">>}
       /\ Called \cap {"parser.llm.ainvoke", "tailor.llm.ainvoke"} = {}
       /\ DOMAIN state \cap {"job_requirements", "tailored_resume",
                             "html_content", "pdf_path"} = {}

\* C11: once the crawl has raised or reported an unsuccessful result, the
\* posting fetch has failed: parse_from_text is not reached, the text kept as
\* the posting text is not an error message of the fetcher, no language model
\* is invoked, and the run ends with run_workflow raising the error of the
\* step that fetches (parse_job).
C11_FetchFaultIsDomainFailure ==
    env.crawl \in {"raised", "unsuccessful"}
    => /\ at["parse_job"] # "llm"
       /\ "job_text" \in DOMAIN local["parse_job"]
          => ~occurs_at(local["parse_job"].job_text,
                        <<"Error fetching job description: ">>, 1)
       /\ Called \cap {"parser.llm.ainvoke", "tailor.llm.ainvoke"} = {}
       /\ pc = "done"
          => /\ result.kind = "raised"
             /\ truthy(state, "error")
             /\ state["error_step"] = <<"parse_job">>

\* C12: for every reply of the language model: when the record parsed from
\* the reply has no role, a null role or an empty role, or when the posting
\* text is empty, parse_from_text returns a failure result without a record,
\* and the wrapped step parse_job returns an error of step parse_job and no
\* job_requirements, so that run_workflow raises; whatever else the reply
\* holds.
C12_MinimumDataGate ==
    LET parsed == _extract_json(args.llm.content)
        no_role ==
            /\ args.llm.kind = "reply"
            /\ parsed.kind = "return"
            /\ parsed.value.type = "dict"
            /\ \/ "role" \notin DOMAIN parsed.value.value
               \/ parsed.value.value["role"] \in {None, Some(<< >>)}
        gate == no_role \/ args.job_text = << >>
    IN  /\ (ret.fn = "parse_from_text" /\ gate)
           => /\ ~ret.value.success
              /\ ret.value.job_requirements = None
              /\ ret.value.error_message # None
        /\ (ret.fn = "parse_job" /\ gate)
           => /\ truthy(ret.value, "error")
              /\ ret.value["error_step"] = <<"parse_job">>
              /\ "job_requirements" \notin DOMAIN ret.value
              /\ run_workflow_result(ret.value).kind = "raised"

\* C12 witness: the reply holds a company and an empty role, the posting
\* text is not empty, and parse_job returned the error of the gate.
C12_Witness ==
    /\ ret.fn = "parse_job"
    /\ args.llm = [kind |-> "reply",
                   content |-> <<"{", "role:", "company:Acme Corp", "}">>]
    /\ args.job_text = PostingText
    /\ ret.value["error_details"] =
          <<"Parsed job missing minimum required data ",
            "(role and description)">>

\* C13: whenever parse_from_text succeeds, the record's raw_description is
\* the posting text it was given, whatever raw_description the reply holds,
\* and its source_url is the URL it was given when it was given one; the
\* gate sees the record with these values: an empty posting text is rejected
\* whatever the reply holds.  The record parse_job stores is that record.
C13_RawTextProvenance ==
    /\ ret.fn = "parse_from_text"
       => /\ ret.value.success
             => LET jr == ret.value.job_requirements[1]
                IN  /\ jr.raw_description = args.job_text
                    /\ args.source_url # << >>
                       => jr.source_url = Some(args.source_url)
          /\ args.job_text = << >> => ~ret.value.success
    /\ (ret.fn = "parse_job" /\ "job_requirements" \in DOMAIN ret.value)
       => /\ ret.value["job_requirements"].raw_description = args.job_text
          /\ ret.value["job_requirements"].source_url = Some(args.source_url)

\* C13 witness: parse_from_text succeeded with a URL on a reply that holds a
\* raw_description of its own.
C13_Witness ==
    /\ ret.fn = "parse_from_text"
    /\ ret.value.success
    /\ args.source_url = <<"https://jobs/acme">>
    /\ args.llm.kind = "reply"
    /\ contains(args.llm.content, <<"raw_description:made up">>)

\* C14: for every reply, _extract_json parses: the text between the first
\* json fence and the next fence when there is a json fence; else the text
\* between the first two fences when there is a fence; else the whole reply,
\* and, only when the whole reply does not parse, the text from the first
\* "{" to the last "}".  When the text it parses is not JSON it raises.
C14_ExtractionPolicy ==
    ret.fn = "_extract_json"
    => LET text == args.llm.content
           whole == json_loads(text)
           first == find(text, <<"{">>)
           last == rfind(text, <<"}">>)
       IN  ret.value =
             IF contains(text, JsonFence)
             THEN json_loads(split_first(split_second(text, JsonFence), Fence))
             ELSE IF contains(text, Fence)
             THEN json_loads(split_first(split_second(text, Fence), Fence))
             ELSE IF whole.kind = "return" \/ first = 0 \/ last = 0
             THEN whole
             ELSE json_loads(SubSeq(text, first, last))

\* C15: for every reply text, _clean_yaml_response returns a text without a
\* fence unchanged, and cleaning what it returned returns the same text.
C15_FenceStripIdentityIdempotent ==
    ret.fn = "_clean_yaml_response"
    => /\ ~contains(args.llm.content, Fence) => ret.value = args.llm.content
       /\ _clean_yaml_response(ret.value) = ret.value

\* C16: once the original profile is in the context no step changes it, so
\* each of its fields has after the tailoring step the value it had before,
\* whether that step succeeded or failed; and the tailored profile the
\* tailoring step stores is another object than the original profile.
C16_ProfileImmutable ==
    /\ [][("original_resume" \in DOMAIN state)
           => /\ "original_resume" \in DOMAIN state'
              /\ state'["original_resume"] = state["original_resume"]]_vars
    /\ []("tailored_resume" \in DOMAIN state
          => /\ "original_resume" \in DOMAIN state
             /\ state["tailored_resume"].oid # state["original_resume"].oid)

\* C16 witness: the run is over, the tailoring step stored a profile whose
\* summary and title differ from the original's, and the original profile is
\* the one load_profile built from the file.
C16_Witness ==
    /\ pc = "done"
    /\ "tailored_resume" \in DOMAIN state
    /\ state["tailored_resume"].summary # state["original_resume"].summary
    /\ state["original_resume"].summary = BaseProfile.summary
    /\ state["original_resume"].candidate = BaseProfile.candidate

\* C17: for every reply that, once its fences are stripped, does not parse
\* into profile data (it is not YAML, or not a mapping, or not a mapping of
\* the profile's types): the wrapped step tailor_resume returns an error of
\* step tailor_resume and no tailored_resume, and the tool
\* tailor_resume_with_llm does not give the original profile as the tailored
\* one.
C17_NoSilentFallback ==
    LET loaded == yaml_safe_load(_clean_yaml_response(args.llm.content))
        unparseable ==
            /\ args.llm.kind = "reply"
            /\ \/ loaded.kind = "raise"
               \/ loaded.value.doc # "mapping"
               \/ ~loaded.value.typed
    IN  /\ (ret.fn = "tailor_resume" /\ unparseable)
           => /\ truthy(ret.value, "error")
              /\ ret.value["error_step"] = <<"tailor_resume">>
              /\ "tailored_resume" \notin DOMAIN ret.value
        /\ (ret.fn = "tailor_resume_with_llm" /\ unparseable)
           => ret.value.artifact # args.user_profile

C19_OutputPathConvention ==
    result.kind = "returned"
    => LET jr == state["job_requirements"]
           clean(name) == [i \in 1..Len(name) |->
                              IF name[i] \in {" ", "/"} THEN "_" ELSE name[i]]
           path == result.value
           dir == SubSeq(path, 1, Len(OutputDir) + 1)
           name == SubSeq(path, Len(OutputDir) + 2, Len(path))
       IN  /\ jr.company # None
           /\ dir = OutputDir \o <<"/">>
           /\ \E now \in 0..clock :
                 name = clean(jr.company[1]) \o <<"_">> \o clean(jr.role)
                        \o <<"_">> \o strftime(now) \o <<".pdf">>
           /\ \A i \in 1..Len(name) : name[i] \notin {" ", "/"}

\* C19 witness: a run for company "Acme Corp" and role "QA/Dev" returned
\* the path outputs/tailored_resumes/Acme_Corp_QA_Dev_20250101_0900.pdf.
C19_Witness ==
    /\ result.kind = "returned"
    /\ result.value = OutputDir \o <<"/", "Acme", "_", "Corp", "_", "QA", "_",
                                      "Dev", "_", "20250101", "_", "09", "0",
                                      "0", ".pdf">>

\* C20: any two calls of run_workflow that returned a path for the same
\* company and role returned different paths, whatever the time between
\* them.
C20_OutputPathUnique ==
    \A i, j \in 1..Len(history) :
       (/\ i < j
        /\ history[i].result.kind = "returned"
        /\ history[j].result.kind = "returned"
        /\ history[i].job_requirements.company
              = history[j].job_requirements.company
        /\ history[i].job_requirements.role = history[j].job_requirements.role)
       => history[i].result.value # history[j].result.value

----------------------------------------------------------------------------
(* C21: the renderer is scoped to the export step *)

----------------------------------------------------------------------------
(* C22: what a failure of the profile load raises *)

\* C22: when the profile cannot be loaded, run_workflow raises a RuntimeError
\* whose message has the text "Failed to load user profile", and no posting
\* is fetched, no model is called, nothing is rendered or exported.
C22_ProfileLoadFailureSurfaces ==
    (pc = "done" /\ \E f \in failed : f[1] = "load_profile")
    => /\ result.kind = "raised"
       /\ result.type = "RuntimeError"
       /\ contains(result.msg, <<"Failed to load user profile">>)
       /\ Called \subseteq {"read_user_profile",
                            "convert_raw_resume_to_resume_data"}

----------------------------------------------------------------------------
(* C23: the nodes of the graph *)

\* C23: the graph build_workflow_graph builds for a run has the nodes
\* load_profile, parse_job, tailor_resume, generate_html, export_pdf,
\* error_sink and success_sink.
C23_GraphStructure ==
    pc # "NotStarted" =>
    {"load_profile", "parse_job", "tailor_resume", "generate_html",
     "export_pdf", "error_sink", "success_sink"} \subseteq Nodes

----------------------------------------------------------------------------
(* C24: no collaborator is invoked twice *)

\* C24: in one run each collaborator is invoked at most once; a run that
\* returns a path has invoked each of them exactly once, in the order of the
\* chain; and once a step has failed no collaborator is invoked any more.
C24_NoRetry ==
    /\ [](\A i, j \in 1..Len(calls) : calls[i] = calls[j] => i = j)
    /\ []((pc = "done" /\ result.kind = "returned")
            => calls = CollaboratorOrder)
    /\ [][failed # {} => calls' = calls]_vars

\* tailoring failed after one call of its model: the wrappers of the two
\* later nodes were invoked and no collaborator after the failure
C24_Witness ==
    /\ pc = "done"
    /\ result.kind = "raised"
    /\ entered = NodeOrder
    /\ \E f \in failed : f[1] = "tailor_resume"
    /\ calls = SubSeq(CollaboratorOrder, 1, 5)

----------------------------------------------------------------------------
(* C25: every run ends *)

\* C25: a run that was started reaches a terminal state, where run_workflow
\* has either returned a path or raised; it gets there after at most one
\* invocation of each step; and nothing changes once it is there.
C25_Termination ==
    /\ (pc = "invoke") ~> (pc = "done")
    /\ [](pc = "done" <=> result.kind \in {"returned", "raised"})
    /\ [](Len(entered) <= Len(NodeOrder))
    /\ [][pc = "done" => UNCHANGED <<pc, result, state, entered, calls>>]_vars

\* a run that went through its five steps and ended
C25_Witness ==
    /\ pc = "done"
    /\ entered = NodeOrder
    /\ result.kind \in {"returned", "raised"}

----------------------------------------------------------------------------
(* C26: the inputs of the run *)

InputKeys == {"job_url", "user_profile_path", "style_name"}

\* C26: job_url, user_profile_path and style_name are in the context from the
\* moment run_workflow builds it, no dict a step returns has any of them, and
\* no step of the run changes their values: at every step and at the end they
\* are the values run_workflow was given.
C26_InputsFrozen ==
    /\ [](pc # "NotStarted" => InputKeys \subseteq DOMAIN state)
    /\ [](\A n \in Nodes : DOMAIN update[n] \cap InputKeys = {})
    /\ [][pc # "NotStarted"
            => \A k \in InputKeys : state'[k] = state[k]]_vars

\* a run with the non-default style went through all steps and returned
C26_Witness ==
    /\ pc = "done"
    /\ result.kind = "returned"
    /\ entered = NodeOrder
    /\ state["style_name"] = <<"modern">>
    /\ truthy(state, "html_content")

----------------------------------------------------------------------------
(* C27: the fields the steps produce *)

\* the fields the function of node n writes when it succeeds
Fields(n) ==
    CASE n = "load_profile"  -> {"original_resume"}
      [] n = "parse_job"     -> {"job_parse_result", "job_requirements"}
      [] n = "tailor_resume" -> {"tailored_resume"}
      [] n = "generate_html" -> {"html_content"}
      [] n = "export_pdf"    -> {"pdf_path"}

ProducedKeys == UNION {Fields(n) : n \in Nodes}

\* C27: in every state of a run the fields a step produced are in the context
\* only if the fields of every earlier step are; when error is set, the
\* fields of the step that failed and of every later step are absent and the
\* fields of the earlier steps are present; and a produced field never
\* changes or disappears, nor is one added once error is set.
C27_ProducedPrefixClosed ==
    /\ [](\A n, m \in Nodes :
            (Pos(m) < Pos(n) /\ Fields(n) \cap DOMAIN state # {})
            => Fields(m) \subseteq DOMAIN state)
    /\ [](truthy(state, "error")
            => \E n \in Nodes :
                  /\ \E f \in failed : f[1] = n
                  /\ \A m \in Nodes :
                        IF Pos(m) < Pos(n)
                        THEN Fields(m) \subseteq DOMAIN state
                        ELSE Fields(m) \cap DOMAIN state = {})
    /\ [][/\ \A k \in ProducedKeys \cap DOMAIN state :
                k \in DOMAIN state' /\ state'[k] = state[k]
          /\ truthy(state, "error")
               => ProducedKeys \cap DOMAIN state'
                    = ProducedKeys \cap DOMAIN state]_vars

\* rendering failed: the run ended with the fields of the three earlier steps
\* and neither the document nor the path
C27_Witness ==
    /\ pc = "done"
    /\ truthy(state, "error")
    /\ \E f \in failed : f[1] = "generate_html"
    /\ ProducedKeys \cap DOMAIN state
         = {"original_resume", "job_parse_result", "job_requirements",
            "tailored_resume"}

----------------------------------------------------------------------------
(* C28: a run in which nothing fails *)

\* C28: a run ends with a path returned and pdf_path in the context whenever
\* the profile was loaded, the posting was fetched, the requirements passed
\* the gate, the resume was tailored, the style exists and neither the output
\* directory nor the browser failed, with or without a company in the
\* requirements.
C28_SuccessWhenNothingFails ==
    (/\ pc = "done"
     /\ {"original_resume", "job_requirements", "tailored_resume"}
            \subseteq DOMAIN state
     /\ env.crawl = "ok"
     /\ state["style_name"][1] \in StyleFiles
     /\ env.mkdir # "failed"
     /\ env.browser \in {"none", "ok"})
    => /\ result.kind = "returned"
       /\ truthy(state, "pdf_path")

----------------------------------------------------------------------------
(* C29: the job parser returns its failures *)

\* C29: for every posting text, fetch outcome and model reply, parse_from_url
\* and parse_from_text return a JobParseResult and raise nothing; its success
\* is true exactly when job_requirements is present and error_message absent,
\* and false exactly when error_message is present and job_requirements
\* absent.
C29_ParserFailuresAreValues ==
    ret.fn \in {"parse_from_url", "parse_from_text"}
    => /\ DOMAIN ret.value = {"success", "job_requirements", "error_message"}
       /\ ret.value.success \in BOOLEAN
       /\ ret.value.success
            <=> (ret.value.job_requirements # None
                 /\ ret.value.error_message = None)
       /\ ~ret.value.success
            <=> (ret.value.error_message # None
                 /\ ret.value.job_requirements = None)

\* the fetch raised inside parse_from_url and the caller got a failed result
C29_Witness ==
    /\ ret.fn = "parse_from_url"
    /\ ret.fetched.kind = "raise"
    /\ ~ret.value.success
    /\ ret.value.job_requirements = None
    /\ ret.value.error_message
         = Some(<<"Error fetching job from URL: ", "timed out">>)

----------------------------------------------------------------------------
(* C30: the two drivers agree *)

\* what the sequential driver did (s) matches what the graph driver did (g)
DriversAgree(s, g) ==
    /\ s.calls = g.calls
    /\ s.value # None <=> g.result.kind = "returned"
    /\ s.value = None
         <=> (g.result.kind = "raised" /\ g.result.type = "RuntimeError")

\* C30: for the same inputs and the same outcomes of the collaborators,
\* run_complete_workflow and run_workflow with the default style invoke the
\* same collaborators in the same order, and one returns a path exactly when
\* the other does, None in the one standing for RuntimeError in the other.
C30_DriversAgree ==
    /\ ret.fn = "run_complete_workflow"
         => DriversAgree(ret, run_workflow(args.job_url,
                                           args.user_profile_path,
                                           "default", args))
    /\ (ret.fn = "run_workflow" /\ ret.style_name = "default")
         => DriversAgree(run_complete_workflow(args.job_url,
                                               args.user_profile_path, args),
                         ret)

\* the sequential driver stopped at its third step, after five collaborator
\* calls, and returned None
C30_Witness ==
    /\ ret.fn = "run_complete_workflow"
    /\ ret.value = None
    /\ ret.calls = SubSeq(CollaboratorOrder, 1, 5)

====
